---- MODULE Spec2Model ----
(***************************************************************************)
(* A model of the Controller of a custom element (src/unnamed/part_000):   *)
(* controller lookup and construction, the connect / disconnect lifecycle, *)
(* template rendering, style installation, reference counted behaviors and *)
(* event emission.  The collaborators the Controller calls (behaviors,     *)
(* views, style objects, the DOM, observers) are represented by the state  *)
(* they keep.  Every method is an operator from a world (the state as one  *)
(* record) to the world after the call; the record also carries what the   *)
(* call returned, whether it threw, and `calls`, the sequence of calls it  *)
(* made to the collaborators.                                              *)
(***************************************************************************)
EXTENDS Integers, Sequences, FiniteSets, TLC

\* Largest reference count the environment drives a behavior to.
MaxCount == 2

Elements == {"e1", "e2"}
Behaviors == {"b1", "b2"}
Templates == {"t1", "t2"}
ManagedStyles == {"s1"}
HTMLStyleElements == {"hs"}
Styles == ManagedStyles \cup HTMLStyleElements

\* JavaScript null / undefined for a value that is otherwise an object:
\* the empty sequence, and <<x>> for the object x.
Null == <<>>
Some(x) == <<x>>
Val(o) == o[1]

\* The behaviors a managed style object carries (styles.behaviors).
styleBehaviors(styles) ==
    IF styles = "s1" THEN Some(<<"b1">>) ELSE Null

VARIABLES
    kind,            \* per element: its registered definition and instance methods
    props,           \* per element: its own property and its accessor's value
    inDocument,      \* per element: whether the node is in the document tree
    pppController,   \* per element: element.$pppController
    constructed,     \* per element: number of Controller constructor runs
    ctl,             \* per element: the fields of its Controller
    shadow,          \* per element: the shadow root attached to it (DOM)
    shadowRoots,     \* the module's WeakMap element -> closed shadow root
    children,        \* per element: the views attached to its render host
    attachedTargets, \* per managed style: the targets it is attached to
    hsParent,        \* per HTMLStyleElement: its parent node
    bound            \* per element and behavior: bind calls minus unbind calls

vars == <<kind, props, inDocument, pppController, constructed, ctl, shadow,
          shadowRoots, children, attachedTargets, hsParent, bound>>

\* The state as one value, threaded through the nested method calls, with
\* the calls made so far, the returned value and whether the call threw.
World ==
    [props |-> props, inDocument |-> inDocument, pppController |-> pppController,
     constructed |-> constructed, ctl |-> ctl, shadow |-> shadow,
     shadowRoots |-> shadowRoots, children |-> children,
     attachedTargets |-> attachedTargets, hsParent |-> hsParent,
     bound |-> bound, calls |-> <<>>, ret |-> Null, threw |-> FALSE]

\* The state after a method call that ended in the world w.
Commit(w) ==
    /\ props' = w.props
    /\ inDocument' = w.inDocument
    /\ pppController' = w.pppController
    /\ constructed' = w.constructed
    /\ ctl' = w.ctl
    /\ shadow' = w.shadow
    /\ shadowRoots' = w.shadowRoots
    /\ children' = w.children
    /\ attachedTargets' = w.attachedTargets
    /\ hsParent' = w.hsParent
    /\ bound' = w.bound
    /\ UNCHANGED kind

Call(w, entry) == [w EXCEPT !.calls = Append(@, entry)]

(***************************************************************************)
(* JavaScript Map, in insertion order: a sequence of <<key, value>>.       *)
(***************************************************************************)
MapHas(m, k) == \E i \in DOMAIN m : m[i][1] = k
MapGet(m, k) == m[CHOOSE i \in DOMAIN m : m[i][1] = k][2]
MapSet(m, k, v) ==
    IF MapHas(m, k)
    THEN [i \in DOMAIN m |-> IF m[i][1] = k THEN <<k, v>> ELSE m[i]]
    ELSE Append(m, <<k, v>>)
MapDelete(m, k) == SelectSeq(m, LAMBDA en : en[1] # k)
MapKeys(m) == [i \in DOMAIN m |-> m[i][1]]

(***************************************************************************)
(* Shadow root lookup.                                                     *)
(***************************************************************************)
\* element.shadowRoot: the attached root when its mode is open, else null.
nativeShadowRoot(w, element) ==
    IF w.shadow[element] # Null /\ Val(w.shadow[element]).mode = "open"
    THEN Some(Val(w.shadow[element]).root)
    ELSE Null

getShadowRoot(w, element) ==
    IF nativeShadowRoot(w, element) # Null
    THEN nativeShadowRoot(w, element)
    ELSE w.shadowRoots[element]

\* element.getRootNode(): the document for a node in the document tree,
\* else the root of the detached tree, here the element itself.
getRootNode(w, element) ==
    IF w.inDocument[element] THEN <<"document", "">> ELSE <<"node", element>>

\* const target = getShadowRoot(this.element) || this.element.getRootNode()
styleTarget(w, element) ==
    IF getShadowRoot(w, element) # Null
    THEN Val(getShadowRoot(w, element))
    ELSE getRootNode(w, element)

\* const host = getShadowRoot(element) || element
renderHost(w, element) ==
    IF getShadowRoot(w, element) # Null
    THEN Val(getShadowRoot(w, element))
    ELSE <<"node", element>>

(***************************************************************************)
(* Behaviors.                                                              *)
(***************************************************************************)
\* The Controller of an element (the object element.$pppController names).
C(w, element) == Val(w.ctl[element])

\* behavior.bind(element, defaultExecutionContext)
bind(w, element, behavior) ==
    Call([w EXCEPT !.bound[element][behavior] = @ + 1],
         [op |-> "bind", el |-> element, arg |-> behavior])

\* behavior.unbind(element)
unbind(w, element, behavior) ==
    Call([w EXCEPT !.bound[element][behavior] = @ - 1],
         [op |-> "unbind", el |-> element, arg |-> behavior])

RECURSIVE bindEach(_, _, _, _)
bindEach(w, element, behaviorsToBind, i) ==
    IF i > Len(behaviorsToBind) THEN w
    ELSE bindEach(bind(w, element, behaviorsToBind[i]), element,
                  behaviorsToBind, i + 1)

RECURSIVE unbindEach(_, _, _, _)
unbindEach(w, element, behaviorsToUnbind, i) ==
    IF i > Len(behaviorsToUnbind) THEN w
    ELSE unbindEach(unbind(w, element, behaviorsToUnbind[i]), element,
                    behaviorsToUnbind, i + 1)

\* addOne binding the behavior on every addition, not only the first.
addOne_bindAlways(targetBehaviors, behaviorsToBind, behavior) ==
    IF MapHas(targetBehaviors, behavior)
    THEN <<MapSet(targetBehaviors, behavior,
                  MapGet(targetBehaviors, behavior) + 1),
           Append(behaviorsToBind, behavior)>>
    ELSE <<MapSet(targetBehaviors, behavior, 1),
           Append(behaviorsToBind, behavior)>>

\* One iteration of the loop of addBehaviors: the pair
\* <<targetBehaviors, behaviorsToBind>> after it.
addOne(targetBehaviors, behaviorsToBind, behavior) ==
    IF MapHas(targetBehaviors, behavior)
    THEN <<MapSet(targetBehaviors, behavior,
                  MapGet(targetBehaviors, behavior) + 1), behaviorsToBind>>
    ELSE <<MapSet(targetBehaviors, behavior, 1),
           Append(behaviorsToBind, behavior)>>

RECURSIVE addLoop(_, _, _, _)
addLoop(targetBehaviors, behaviorsToBind, behaviors, i) ==
    IF i > Len(behaviors) THEN <<targetBehaviors, behaviorsToBind>>
    ELSE LET r == addOne(targetBehaviors, behaviorsToBind, behaviors[i])
         IN addLoop(r[1], r[2], behaviors, i + 1)

\* addBehaviors binding also when the Controller is not connected.
addBehaviors_bindNow(w, element, behaviors) ==
    LET targetBehaviors == IF C(w, element).behaviors = Null
                           THEN <<>>
                           ELSE Val(C(w, element).behaviors)
        r == addLoop(targetBehaviors, <<>>, behaviors, 1)
        w1 == [w EXCEPT !.ctl[element][1].behaviors = Some(r[1])]
    IN bindEach(w1, element, r[2], 1)

addBehaviors(w, element, behaviors) ==
    LET targetBehaviors == IF C(w, element).behaviors = Null
                           THEN <<>>
                           ELSE Val(C(w, element).behaviors)
        r == addLoop(targetBehaviors, <<>>, behaviors, 1)
        w1 == [w EXCEPT !.ctl[element][1].behaviors = Some(r[1])]
    IN IF C(w, element)._isConnected
       THEN bindEach(w1, element, r[2], 1)
       ELSE w1

\* removeOne keeping an entry whose count has reached zero.
removeOne_keepZero(targetBehaviors, behaviorsToUnbind, behavior, force) ==
    IF MapHas(targetBehaviors, behavior)
    THEN LET count == MapGet(targetBehaviors, behavior) - 1
         IN IF count < 0 \/ force
            THEN <<MapDelete(targetBehaviors, behavior),
                   Append(behaviorsToUnbind, behavior)>>
            ELSE <<MapSet(targetBehaviors, behavior, count),
                   behaviorsToUnbind>>
    ELSE <<targetBehaviors, behaviorsToUnbind>>

\* removeOne ignoring force.
removeOne_ignoreForce(targetBehaviors, behaviorsToUnbind, behavior, force) ==
    IF MapHas(targetBehaviors, behavior)
    THEN LET count == MapGet(targetBehaviors, behavior) - 1
         IN IF count = 0
            THEN <<MapDelete(targetBehaviors, behavior),
                   Append(behaviorsToUnbind, behavior)>>
            ELSE <<MapSet(targetBehaviors, behavior, count),
                   behaviorsToUnbind>>
    ELSE <<targetBehaviors, behaviorsToUnbind>>

\* One iteration of the loop of removeBehaviors: the pair
\* <<targetBehaviors, behaviorsToUnbind>> after it.
removeOne(targetBehaviors, behaviorsToUnbind, behavior, force) ==
    IF MapHas(targetBehaviors, behavior)
    THEN LET count == MapGet(targetBehaviors, behavior) - 1
         IN IF count = 0 \/ force
            THEN <<MapDelete(targetBehaviors, behavior),
                   Append(behaviorsToUnbind, behavior)>>
            ELSE <<MapSet(targetBehaviors, behavior, count),
                   behaviorsToUnbind>>
    ELSE <<targetBehaviors, behaviorsToUnbind>>

RECURSIVE removeLoop(_, _, _, _, _)
removeLoop(targetBehaviors, behaviorsToUnbind, behaviors, force, i) ==
    IF i > Len(behaviors) THEN <<targetBehaviors, behaviorsToUnbind>>
    ELSE LET r == removeOne(targetBehaviors, behaviorsToUnbind,
                            behaviors[i], force)
         IN removeLoop(r[1], r[2], behaviors, force, i + 1)

\* removeBehaviors unbinding also when the Controller is not connected.
removeBehaviors_unbindNow(w, element, behaviors, force) ==
    IF C(w, element).behaviors = Null THEN w
    ELSE LET r == removeLoop(Val(C(w, element).behaviors), <<>>,
                             behaviors, force, 1)
             w1 == [w EXCEPT !.ctl[element][1].behaviors = Some(r[1])]
         IN unbindEach(w1, element, r[2], 1)

removeBehaviors(w, element, behaviors, force) ==
    IF C(w, element).behaviors = Null THEN w
    ELSE LET r == removeLoop(Val(C(w, element).behaviors), <<>>,
                             behaviors, force, 1)
             w1 == [w EXCEPT !.ctl[element][1].behaviors = Some(r[1])]
         IN IF C(w, element)._isConnected
            THEN unbindEach(w1, element, r[2], 1)
            ELSE w1

(***************************************************************************)
(* Styles.  A style is an HTMLStyleElement, a node with one parent, or a   *)
(* managed style object that records the targets it is attached to.        *)
(***************************************************************************)
isAttachedTo(w, styles, target) == target \in w.attachedTargets[styles]

addStylesTo(w, styles, target) ==
    Call([w EXCEPT !.attachedTargets[styles] = @ \cup {target}],
         [op |-> "addStylesTo", el |-> styles, arg |-> target])

removeStylesFrom(w, styles, target) ==
    Call([w EXCEPT !.attachedTargets[styles] = @ \ {target}],
         [op |-> "removeStylesFrom", el |-> styles, arg |-> target])

\* target.append(styles): the node moves to the end of target's children.
append(w, target, styles) ==
    Call([w EXCEPT !.hsParent[styles] = Some(target)],
         [op |-> "append", el |-> styles, arg |-> target])

\* target.removeChild(styles): throws when styles is not a child of target.
removeChild(w, target, styles) ==
    IF w.hsParent[styles] = Some(target)
    THEN Call([w EXCEPT !.hsParent[styles] = Null],
              [op |-> "removeChild", el |-> styles, arg |-> target])
    ELSE [w EXCEPT !.threw = TRUE]

addStyles(w, element, styles) ==
    LET target == styleTarget(w, element)
    IN IF styles \in HTMLStyleElements
       THEN append(w, target, styles)
       ELSE IF ~isAttachedTo(w, styles, target)
            THEN LET sourceBehaviors == styleBehaviors(styles)
                     w1 == addStylesTo(w, styles, target)
                 IN IF sourceBehaviors # Null
                    THEN addBehaviors(w1, element, Val(sourceBehaviors))
                    ELSE w1
            ELSE w

removeStyles(w, element, styles) ==
    LET target == styleTarget(w, element)
    IN IF styles \in HTMLStyleElements
       THEN removeChild(w, target, styles)
       ELSE IF isAttachedTo(w, styles, target)
            THEN LET sourceBehaviors == styleBehaviors(styles)
                     w1 == removeStylesFrom(w, styles, target)
                 IN IF sourceBehaviors # Null
                    THEN removeBehaviors(w1, element, Val(sourceBehaviors),
                                         FALSE)
                    ELSE w1
            ELSE w

(***************************************************************************)
(* Views and rendering.                                                    *)
(***************************************************************************)
\* The last occurrence of x removed from the sequence s.
RemoveLast(s, x) ==
    IF \E i \in DOMAIN s : s[i] = x
    THEN LET k == CHOOSE i \in DOMAIN s :
                    s[i] = x /\ \A j \in DOMAIN s : s[j] = x => j <= i
         IN [i \in 1..(Len(s) - 1) |-> IF i < k THEN s[i] ELSE s[i + 1]]
    ELSE s

\* view.dispose(): the view is unbound and its nodes leave the host.
dispose(w, element) ==
    LET view == Val(C(w, element).view)
    IN Call([w EXCEPT !.children[view.host] = RemoveLast(@, view.template)],
            [op |-> "dispose", el |-> element, arg |-> view.template])

\* DOM.removeChildNodes(host)
removeChildNodes(w, element, host) ==
    Call([w EXCEPT !.children[host] = <<>>],
         [op |-> "removeChildNodes", el |-> element, arg |-> host])

\* template.render(element, host, element): a view bound to the element,
\* its nodes appended to the host.
render(w, element, template, host) ==
    Call([w EXCEPT !.ctl[element][1].view =
                       Some([template |-> template, host |-> host,
                             bound |-> TRUE]),
                   !.children[host] = Append(@, template)],
         [op |-> "render", el |-> element, arg |-> host,
          template |-> template])

\* view.bind(element, defaultExecutionContext)
viewBind(w, element) ==
    Call([w EXCEPT !.ctl[element][1].view[1].bound = TRUE],
         [op |-> "view.bind", el |-> element,
          arg |-> Val(C(w, element).view).template])

\* view.unbind()
viewUnbind(w, element) ==
    Call([w EXCEPT !.ctl[element][1].view[1].bound = FALSE],
         [op |-> "view.unbind", el |-> element,
          arg |-> Val(C(w, element).view).template])

\* renderTemplate replacing the view without disposing it.
renderTemplate_noDispose(w, element, template) ==
    LET host == renderHost(w, element)
        w1 == IF C(w, element).view # Null
              THEN [w EXCEPT !.ctl[element][1].view = Null]
              ELSE IF ~C(w, element).needsInitialization
                   THEN removeChildNodes(w, element, host)
                   ELSE w
    IN IF template # "null"
       THEN render(w1, element, template, host)
       ELSE w1

renderTemplate(w, element, template) ==
    LET host == renderHost(w, element)
        w1 == IF C(w, element).view # Null
              THEN [dispose(w, element) EXCEPT !.ctl[element][1].view = Null]
              ELSE IF ~C(w, element).needsInitialization
                   THEN removeChildNodes(w, element, host)
                   ELSE w
    IN IF template # "null"
       THEN render(w1, element, template, host)
       ELSE w1

(***************************************************************************)
(* Event emission.                                                         *)
(***************************************************************************)
defaultEventOptions ==
    [bubbles |-> TRUE, composed |-> TRUE, cancelable |-> TRUE]

\* Object.assign(target, source): source's keys win; an undefined source
\* is skipped.
Assign(target, source) ==
    IF source = Null THEN target
    ELSE [k \in DOMAIN target \cup DOMAIN Val(source) |->
             IF k \in DOMAIN Val(source) THEN Val(source)[k] ELSE target[k]]

\* element.dispatchEvent(event): false when the event is cancelable and a
\* listener (prevented) called preventDefault, else true.
dispatchEvent(w, element, init, prevented) ==
    [Call(w, [op |-> "dispatchEvent", el |-> element, init |-> init])
        EXCEPT !.ret = Some(~(init.cancelable /\ prevented))]

\* emit with the defaults assigned over the caller's options.
emit_defaultsLast(w, element, detail, options, prevented) ==
    IF C(w, element)._isConnected
    THEN dispatchEvent(w, element,
             Assign(Assign([detail |-> detail], options),
                    Some(defaultEventOptions)),
             prevented)
    ELSE [w EXCEPT !.ret = Some(FALSE)]

emit(w, element, detail, options, prevented) ==
    IF C(w, element)._isConnected
    THEN dispatchEvent(w, element,
             Assign(Assign([detail |-> detail], Some(defaultEventOptions)),
                    options),
             prevented)
    ELSE [w EXCEPT !.ret = Some(FALSE)]

(***************************************************************************)
(* Lifecycle.                                                              *)
(***************************************************************************)
\* Observable.notify(this, 'isConnected'): the observers run; an observer
\* of kind "emit" calls emit on the Controller it is notified about.
notify(w, element, observer) ==
    LET w1 == Call(w, [op |-> "notify", el |-> element,
                       value |-> C(w, element)._isConnected])
    IN IF observer = "emit"
       THEN LET w2 == emit(w1, element, "d", Null, FALSE)
            IN [Call(w2, [op |-> "emit.return", el |-> element,
                          value |-> Val(w2.ret)]) EXCEPT !.ret = Null]
       ELSE w1

setIsConnected(w, element, value, observer) ==
    notify([w EXCEPT !.ctl[element][1]._isConnected = value],
           element, observer)

\* initialTemplate with the definition asked before the instance method.
initialTemplate_definitionFirst(c, k) ==
    IF c._template = "null"
    THEN IF k.template # "undefined"
         THEN k.template
         ELSE IF k.resolveTemplate # Null
              THEN Val(k.resolveTemplate)
              ELSE "null"
    ELSE c._template

\* The template finishInitialization settles on.
initialTemplate(c, k) ==
    IF c._template = "null"
    THEN IF k.resolveTemplate # Null
         THEN Val(k.resolveTemplate)
         ELSE IF k.template # "undefined" THEN k.template ELSE "null"
    ELSE c._template

\* The styles finishInitialization settles on.
initialStyles(c, k) ==
    IF c._styles = "null"
    THEN IF k.resolveStyles # Null
         THEN Val(k.resolveStyles)
         ELSE IF k.styles # "undefined" THEN k.styles ELSE "null"
    ELSE c._styles

\* boundObservables, when not null, is an object holding the captured
\* values (here of one property, so <<>> or <<value>>); each is assigned
\* back through the accessor, element[propertyName] = value.
reapply(w, element) ==
    IF C(w, element).boundObservables # Null
    THEN LET values == Val(C(w, element).boundObservables)
             w1 == IF values # <<>>
                   THEN Call([w EXCEPT !.props[element].accessor =
                                           Some(values[1])],
                             [op |-> "setProperty", el |-> element,
                              arg |-> values[1]])
                   ELSE w
         IN [w1 EXCEPT !.ctl[element][1].boundObservables = Null]
    ELSE w

finishInitialization(w, element) ==
    LET w1 == reapply(w, element)
        template == initialTemplate(C(w1, element), kind[element])
        w2 == [w1 EXCEPT !.ctl[element][1]._template = template]
        w3 == IF template # "null"
              THEN renderTemplate(w2, element, template)
              ELSE w2
        styles == initialStyles(C(w3, element), kind[element])
        w4 == [w3 EXCEPT !.ctl[element][1]._styles = styles]
        w5 == IF styles # "null" THEN addStyles(w4, element, styles) ELSE w4
    IN [w5 EXCEPT !.ctl[element][1].needsInitialization = FALSE]

\* onConnectedCallback running the initialization on every connect.
onConnectedCallback_alwaysInit(w, element, observer) ==
    IF C(w, element)._isConnected THEN w
    ELSE LET w1 == finishInitialization(w, element)
             w2 == IF C(w1, element).behaviors # Null
                   THEN bindEach(w1, element,
                                 MapKeys(Val(C(w1, element).behaviors)), 1)
                   ELSE w1
         IN setIsConnected(w2, element, TRUE, observer)

\* onConnectedCallback marking the Controller connected before the
\* behaviors are bound instead of after.
onConnectedCallback_connectFirst(w, element, observer) ==
    IF C(w, element)._isConnected THEN w
    ELSE LET w1 == IF C(w, element).needsInitialization
                   THEN finishInitialization(w, element)
                   ELSE IF C(w, element).view # Null
                        THEN viewBind(w, element)
                        ELSE w
             w2 == setIsConnected(w1, element, TRUE, observer)
         IN IF C(w2, element).behaviors # Null
            THEN bindEach(w2, element,
                          MapKeys(Val(C(w2, element).behaviors)), 1)
            ELSE w2

onConnectedCallback(w, element, observer) ==
    IF C(w, element)._isConnected THEN w
    ELSE LET w1 == IF C(w, element).needsInitialization
                   THEN finishInitialization(w, element)
                   ELSE IF C(w, element).view # Null
                        THEN viewBind(w, element)
                        ELSE w
             w2 == IF C(w1, element).behaviors # Null
                   THEN bindEach(w1, element,
                                 MapKeys(Val(C(w1, element).behaviors)), 1)
                   ELSE w1
         IN setIsConnected(w2, element, TRUE, observer)

\* onDisconnectedCallback without its early return.
onDisconnectedCallback_noGuard(w, element, observer) ==
    LET w1 == setIsConnected(w, element, FALSE, observer)
        w2 == IF C(w1, element).view # Null
              THEN viewUnbind(w1, element)
              ELSE w1
    IN IF C(w2, element).behaviors # Null
       THEN unbindEach(w2, element,
                       MapKeys(Val(C(w2, element).behaviors)), 1)
       ELSE w2

\* onDisconnectedCallback disposing the view instead of unbinding it.
onDisconnectedCallback_dispose(w, element, observer) ==
    IF ~C(w, element)._isConnected THEN w
    ELSE LET w1 == setIsConnected(w, element, FALSE, observer)
             w2 == IF C(w1, element).view # Null
                   THEN [dispose(w1, element)
                            EXCEPT !.ctl[element][1].view = Null]
                   ELSE w1
         IN IF C(w2, element).behaviors # Null
            THEN unbindEach(w2, element,
                            MapKeys(Val(C(w2, element).behaviors)), 1)
            ELSE w2

\* onDisconnectedCallback marking the Controller disconnected after the
\* teardown instead of before it.
onDisconnectedCallback_teardownFirst(w, element, observer) ==
    IF ~C(w, element)._isConnected THEN w
    ELSE LET w1 == IF C(w, element).view # Null
                   THEN viewUnbind(w, element)
                   ELSE w
             w2 == IF C(w1, element).behaviors # Null
                   THEN unbindEach(w1, element,
                                   MapKeys(Val(C(w1, element).behaviors)), 1)
                   ELSE w1
         IN setIsConnected(w2, element, FALSE, observer)

onDisconnectedCallback(w, element, observer) ==
    IF ~C(w, element)._isConnected THEN w
    ELSE LET w1 == setIsConnected(w, element, FALSE, observer)
             w2 == IF C(w1, element).view # Null
                   THEN viewUnbind(w1, element)
                   ELSE w1
         IN IF C(w2, element).behaviors # Null
            THEN unbindEach(w2, element,
                            MapKeys(Val(C(w2, element).behaviors)), 1)
            ELSE w2

(***************************************************************************)
(* The template and styles setters.                                        *)
(***************************************************************************)
\* setTemplate without the comparison with the current value.
setTemplate_noCompare(w, element, value) ==
    LET w1 == [w EXCEPT !.ctl[element][1]._template = value]
    IN IF ~C(w, element).needsInitialization
       THEN renderTemplate(w1, element, value)
       ELSE w1

setTemplate(w, element, value) ==
    IF C(w, element)._template = value THEN w
    ELSE LET w1 == [w EXCEPT !.ctl[element][1]._template = value]
         IN IF ~C(w, element).needsInitialization
            THEN renderTemplate(w1, element, value)
            ELSE w1

setStyles(w, element, value) ==
    IF C(w, element)._styles = value THEN w
    ELSE LET w1 == IF C(w, element)._styles # "null"
                   THEN removeStyles(w, element, C(w, element)._styles)
                   ELSE w
             w2 == [w1 EXCEPT !.ctl[element][1]._styles = value]
         IN IF w1.threw THEN w1
            ELSE IF ~C(w, element).needsInitialization /\ value # "null"
                 THEN addStyles(w2, element, value)
                 ELSE w2

(***************************************************************************)
(* Construction and lookup.                                                *)
(***************************************************************************)
\* PPPElementDefinition.forType(element.constructor)
forType(k) == IF k.registered THEN Some(k) ELSE Null

\* element.attachShadow(shadowOptions): throws when a root is attached.
attachShadow(w, element, mode) ==
    IF w.shadow[element] # Null THEN [w EXCEPT !.threw = TRUE]
    ELSE Call([w EXCEPT !.shadow[element] =
                  Some([mode |-> mode, root |-> <<"shadowRoot", element>>])],
              [op |-> "attachShadow", el |-> element, arg |-> mode])

\* registerShadowRoot registering the open roots instead of the closed.
registerShadowRoot_open(w, element, mode) ==
    IF mode = "open"
    THEN [w EXCEPT !.shadowRoots[element] =
                       Some(Val(w.shadow[element]).root)]
    ELSE w

\* The closed shadow root is registered in the WeakMap.
registerShadowRoot(w, element, mode) ==
    IF mode = "closed"
    THEN [w EXCEPT !.shadowRoots[element] =
                       Some(Val(w.shadow[element]).root)]
    ELSE w

\* With accessors, boundObservables becomes an object; the value of an
\* observable property set before the upgrade is captured in it and the
\* own property deleted.
capture(w, element, accessors) ==
    IF accessors
    THEN LET value == IF w.props[element].own # Null
                      THEN w.props[element].own
                      ELSE w.props[element].accessor
             w1 == [w EXCEPT !.ctl[element][1].boundObservables = Some(<<>>)]
         IN IF value # Null
            THEN [w1 EXCEPT !.props[element].own = Null,
                            !.ctl[element][1].boundObservables =
                                Some(<<Val(value)>>)]
            ELSE w1
    ELSE w

constructor(w, element, definition) ==
    LET w0 == [w EXCEPT !.constructed[element] = @ + 1]
        fresh == [id |-> w0.constructed[element],
                  boundObservables |-> Null, behaviors |-> Null,
                  needsInitialization |-> TRUE, _template |-> "null",
                  _styles |-> "null", _isConnected |-> FALSE, view |-> Null]
        shadowOptions == definition.shadowOptions
        w1 == IF shadowOptions # "undefined"
              THEN attachShadow(w0, element, shadowOptions)
              ELSE w0
        w2 == [w1 EXCEPT !.ctl[element] = Some(fresh)]
        w3 == IF shadowOptions # "undefined"
              THEN registerShadowRoot(w2, element, shadowOptions)
              ELSE w2
    IN IF w1.threw THEN w1
       ELSE [capture(w3, element, definition.accessors)
                EXCEPT !.ret = Some(fresh.id)]

\* forCustomElement without the look at element.$pppController.
forCustomElement_noCache(w, element) ==
    LET definition == forType(kind[element])
    IN IF definition = Null THEN [w EXCEPT !.threw = TRUE]
       ELSE LET w1 == constructor(w, element, Val(definition))
            IN IF w1.threw THEN w1
               ELSE [w1 EXCEPT !.pppController[element] = w1.ret]

\* forCustomElement without the check of the definition: the Controller is
\* built from what the type holds.
forCustomElement_noCheck(w, element) ==
    IF w.pppController[element] # Null
    THEN [w EXCEPT !.ret = w.pppController[element]]
    ELSE LET w1 == constructor(w, element, kind[element])
         IN IF w1.threw THEN w1
            ELSE [w1 EXCEPT !.pppController[element] = w1.ret]

forCustomElement(w, element) ==
    IF w.pppController[element] # Null
    THEN [w EXCEPT !.ret = w.pppController[element]]
    ELSE LET definition == forType(kind[element])
         IN IF definition = Null THEN [w EXCEPT !.threw = TRUE]
            ELSE LET w1 == constructor(w, element, Val(definition))
                 IN IF w1.threw THEN w1
                    ELSE [w1 EXCEPT !.pppController[element] = w1.ret]

(***************************************************************************)
(* The elements of the page and the inputs of the operations.              *)
(***************************************************************************)
\* An element type: whether a definition is registered for it, what the
\* definition holds, and the instance methods and pre-upgrade property of
\* the element.
Kind(registered, shadowOptions, template, styles, resolveTemplate, resolveStyles, accessors, preset) ==
    [registered |-> registered, shadowOptions |-> shadowOptions,
     template |-> template, styles |-> styles,
     resolveTemplate |-> resolveTemplate, resolveStyles |-> resolveStyles,
     accessors |-> accessors, preset |-> preset]

Unregistered ==
    Kind(FALSE, "undefined", "undefined", "undefined", Null, Null, FALSE, FALSE)

\* A closed shadow root, a template and styles from the definition, and an
\* observable property set before the upgrade.
ClosedKind == Kind(TRUE, "closed", "t1", "s1", Null, Null, TRUE, TRUE)

\* An open shadow root, the template and the styles from the instance
\* methods.
OpenKind ==
    Kind(TRUE, "open", "undefined", "undefined", Some("t2"), Some("hs"),
         TRUE, FALSE)

\* Light DOM, a template and styles from the definition.
LightKind == Kind(TRUE, "undefined", "t1", "s1", Null, Null, FALSE, FALSE)

\* Light DOM, the element renders its own content.
BareKind ==
    Kind(TRUE, "undefined", "undefined", "undefined", Null, Null,
         FALSE, FALSE)

\* Light DOM, the instance methods and the definition both give a template
\* and styles.
BothKind ==
    Kind(TRUE, "undefined", "t1", "hs", Some("t2"), Some("s1"), FALSE, FALSE)

\* Light DOM, the instance methods return null although the definition
\* gives a template and styles.
NullResolverKind ==
    Kind(TRUE, "undefined", "t1", "s1", Some("null"), Some("null"),
         FALSE, FALSE)

Kinds ==
    {Unregistered, ClosedKind, OpenKind, LightKind, BareKind, BothKind,
     NullResolverKind}

\* The elements the environment drives through every operation; the others
\* are only looked up.
Driven == {"e1"}

\* The kinds of the driven elements.
DrivenKinds ==
    {Unregistered, ClosedKind, OpenKind, BareKind, BothKind, NullResolverKind}

\* The pages: the driven element is of any of its kinds next to an element
\* of an unregistered type, or has a closed shadow root next to another
\* element with a closed shadow root.
Pages ==
    {p \in [Elements -> Kinds] :
        /\ \A d \in Driven : p[d] \in DrivenKinds
        /\ \A e \in Elements \ Driven :
              \/ p[e] = Unregistered
              \/ /\ p[e] = ClosedKind
                 /\ \A d \in Driven : p[d] = ClosedKind}

Hosts == {<<"shadowRoot", e>> : e \in Elements} \cup
         {<<"node", e>> : e \in Elements}

BehaviorArrays == {<<"b1">>, <<"b2">>, <<"b1", "b1">>, <<"b1", "b2">>}

EventOptions ==
    {Null, Some([cancelable |-> FALSE]),
     Some([bubbles |-> FALSE, composed |-> FALSE])}

Observers == {"none", "emit"}

TemplateValues == Templates \cup {"null"}
StylesValues == Styles \cup {"null"}

\* The world once the platform has moved the node into (or out of) the
\* document, which it does before it runs the lifecycle callback.  The
\* position is kept for the elements without a shadow root, the only ones
\* whose root node is ever asked for.
Moved(w, element, platform, into) ==
    IF platform /\ getShadowRoot(w, element) = Null
    THEN [w EXCEPT !.inDocument[element] = into]
    ELSE w

Init ==
    /\ kind \in Pages
    /\ props = [e \in Elements |->
                   [own |-> IF kind[e].preset THEN Some("v") ELSE Null,
                    accessor |-> Null]]
    /\ inDocument = [e \in Elements |-> FALSE]
    /\ pppController = [e \in Elements |-> Null]
    /\ constructed = [e \in Elements |-> 0]
    /\ ctl = [e \in Elements |-> Null]
    /\ shadow = [e \in Elements |-> Null]
    /\ shadowRoots = [e \in Elements |-> Null]
    /\ children = [h \in Hosts |-> <<>>]
    /\ attachedTargets = [s \in ManagedStyles |-> {}]
    /\ hsParent = [s \in HTMLStyleElements |-> Null]
    /\ bound = [e \in Elements |-> [b \in Behaviors |-> 0]]

\* The counts of the behaviors map of a Controller stay within the bound.
WithinBound(w, element) ==
    \A i \in DOMAIN Val(C(w, element).behaviors) :
        Val(C(w, element).behaviors)[i][2] <= MaxCount

ForCustomElement(e) ==
    Commit(forCustomElement(World, e))

\* The platform's callback (the node has just entered the document) or a
\* direct call of the method, the node staying where it is.
OnConnectedCallback(e) ==
    /\ e \in Driven
    /\ pppController[e] # Null
    /\ \E platform \in BOOLEAN, observer \in Observers :
         Commit(onConnectedCallback(Moved(World, e, platform, TRUE),
                                    e, observer))

\* The platform's callback (the node has just left the document) or a
\* direct call of the method.
OnDisconnectedCallback(e) ==
    /\ e \in Driven
    /\ pppController[e] # Null
    /\ \E platform \in BOOLEAN, observer \in Observers :
         Commit(onDisconnectedCallback(Moved(World, e, platform, FALSE),
                                       e, observer))

SetTemplate(e) ==
    /\ e \in Driven
    /\ pppController[e] # Null
    /\ \E value \in TemplateValues : Commit(setTemplate(World, e, value))

SetStyles(e) ==
    /\ e \in Driven
    /\ pppController[e] # Null
    /\ \E value \in StylesValues : Commit(setStyles(World, e, value))

AddStyles(e) ==
    /\ e \in Driven
    /\ pppController[e] # Null
    /\ \E styles \in Styles : Commit(addStyles(World, e, styles))

RemoveStyles(e) ==
    /\ e \in Driven
    /\ pppController[e] # Null
    /\ \E styles \in Styles : Commit(removeStyles(World, e, styles))

AddBehaviors(e) ==
    /\ e \in Driven
    /\ pppController[e] # Null
    /\ \E behaviors \in BehaviorArrays :
         /\ WithinBound(addBehaviors(World, e, behaviors), e)
         /\ Commit(addBehaviors(World, e, behaviors))

RemoveBehaviors(e) ==
    /\ e \in Driven
    /\ pppController[e] # Null
    /\ \E behaviors \in BehaviorArrays, force \in BOOLEAN :
         Commit(removeBehaviors(World, e, behaviors, force))

Emit(e) ==
    /\ e \in Driven
    /\ pppController[e] # Null
    /\ \E options \in EventOptions, prevented \in BOOLEAN :
         Commit(emit(World, e, "d", options, prevented))

\* The author of an element that renders its own content puts content in
\* the host while the Controller has no view.
RenderCustomContent(e) ==
    /\ e \in Driven
    /\ pppController[e] # Null
    /\ kind[e] = BareKind
    /\ C(World, e).view = Null
    /\ children[renderHost(World, e)] = <<>>
    /\ Commit([World EXCEPT !.children[renderHost(World, e)] = <<"content">>])

Next ==
    \E e \in Elements :
        \/ ForCustomElement(e)
        \/ OnConnectedCallback(e)
        \/ OnDisconnectedCallback(e)
        \/ SetTemplate(e)
        \/ SetStyles(e)
        \/ AddStyles(e)
        \/ RemoveStyles(e)
        \/ AddBehaviors(e)
        \/ RemoveBehaviors(e)
        \/ Emit(e)
        \/ RenderCustomContent(e)

Spec == Init /\ [][Next]_vars

(***************************************************************************)
(* Properties.  A method's effect is stated on the world it returns when   *)
(* called, with each of its inputs, in a reachable state.                  *)
(***************************************************************************)
\* The elements that have a Controller.
Live == {e \in Elements : pppController[e] # Null}

\* The behaviors map of the Controller of e in w, <<>> when it is null.
MapOf(w, e) ==
    IF C(w, e).behaviors = Null THEN <<>> ELSE Val(C(w, e).behaviors)

\* How many times the calls hold the call op(arg) for element e.
CallCount(cs, op, e, arg) ==
    Cardinality({i \in DOMAIN cs :
                    cs[i].op = op /\ cs[i].el = e /\ cs[i].arg = arg})

\* The positions of the calls named op.
CallsOf(cs, op) == {i \in DOMAIN cs : cs[i].op = op}

\* n calls of addBehaviors([b]) in a row.
RECURSIVE addTimes(_, _, _, _)
addTimes(w, e, b, n) ==
    IF n = 0 THEN w ELSE addTimes(addBehaviors(w, e, <<b>>), e, b, n - 1)

\* n calls of removeBehaviors([b]), not forced, in a row.
RECURSIVE removeTimes(_, _, _, _)
removeTimes(w, e, b, n) ==
    IF n = 0 THEN w
    ELSE removeTimes(removeBehaviors(w, e, <<b>>, FALSE), e, b, n - 1)

\* C1: on a connected Controller, N additions of a behavior b that is not
\* yet in the map, followed by N removals that are not forced, call b.bind
\* exactly once, on the first addition, and b.unbind exactly once, on the
\* N-th removal; after fewer than N removals b is still bound and still in
\* the map.
C1_ReferenceCounting ==
    \A e \in Live : \A b \in Behaviors : \A n \in 1..MaxCount :
        (C(World, e)._isConnected /\ ~MapHas(MapOf(World, e), b)) =>
            LET first == addBehaviors(World, e, <<b>>)
                added == addTimes(World, e, b, n)
            IN /\ CallCount(first.calls, "bind", e, b) = 1
               /\ CallCount(added.calls, "bind", e, b) = 1
               /\ CallCount(added.calls, "unbind", e, b) = 0
               /\ MapGet(MapOf(added, e), b) = n
               /\ LET twice == addBehaviors(World, e, <<b, b>>)
                  IN /\ CallCount(twice.calls, "bind", e, b) = 1
                     /\ MapGet(MapOf(twice, e), b) = 2
                     /\ CallCount(removeBehaviors(twice, e, <<b, b>>, FALSE)
                                      .calls, "unbind", e, b) = 1
               /\ \A k \in 0..n :
                    LET w == removeTimes(added, e, b, k)
                    IN /\ CallCount(w.calls, "bind", e, b) = 1
                       /\ CallCount(w.calls, "unbind", e, b) =
                              IF k = n THEN 1 ELSE 0
                       /\ MapHas(MapOf(w, e), b) <=> k < n
                       /\ w.bound[e][b] =
                              IF k < n THEN bound[e][b] + 1 ELSE bound[e][b]

\* A connected Controller holds a behavior added more than once, bound once.
C1_Witness ==
    \E e \in Live :
        /\ C(World, e)._isConnected
        /\ MapHas(MapOf(World, e), "b2")
        /\ MapGet(MapOf(World, e), "b2") >= 2
        /\ bound[e]["b2"] = 1
        /\ MapHas(MapOf(removeTimes(World, e, "b2", 1), e), "b2")

\* The members of an array of behaviors.
Members(behaviors) == {behaviors[i] : i \in DOMAIN behaviors}

\* C2: a forced removal of a behavior b that is in the map deletes b's
\* entry whatever its count and leaves b unbound; on a connected
\* Controller the call unbinds b exactly once.
C2_ForcedRemoval ==
    \A e \in Live : \A behaviors \in BehaviorArrays :
        LET w == removeBehaviors(World, e, behaviors, TRUE)
        IN \A b \in Members(behaviors) :
             MapHas(MapOf(World, e), b) =>
                /\ ~MapHas(MapOf(w, e), b)
                /\ w.bound[e][b] = 0
                /\ CallCount(w.calls, "unbind", e, b) =
                       IF C(World, e)._isConnected THEN 1 ELSE 0
                /\ CallCount(w.calls, "bind", e, b) = 0

\* A connected Controller holds a bound behavior with a count above one.
C2_Witness ==
    \E e \in Live : \E b \in Behaviors :
        /\ C(World, e)._isConnected
        /\ MapHas(MapOf(World, e), b)
        /\ MapGet(MapOf(World, e), b) >= 2
        /\ bound[e][b] = 1
        /\ ~MapHas(MapOf(removeBehaviors(World, e, <<b>>, TRUE), e), b)

\* C3: onConnectedCallback on a connected Controller, and
\* onDisconnectedCallback on a Controller that is not connected, change
\* nothing and call nothing: no behavior or view is bound or unbound,
\* nothing is rendered and no observer is notified.
C3_RedundantLifecycle ==
    \A e \in Live : \A observer \in Observers :
        /\ C(World, e)._isConnected =>
               onConnectedCallback(World, e, observer) = World
        /\ ~C(World, e)._isConnected =>
               onDisconnectedCallback(World, e, observer) = World

\* A connected Controller with a view and a behavior is connected again.
C3_Witness ==
    \E e \in Live :
        /\ C(World, e)._isConnected
        /\ C(World, e).view # Null
        /\ MapOf(World, e) # <<>>
        /\ onConnectedCallback(World, e, "emit").calls = <<>>

\* C4: assigning template or styles the value it already has is a no-op in
\* every lifecycle state: nothing is rendered or disposed, no style is
\* added to or removed from the render target, and the behaviors map is
\* unchanged.
C4_SameValueAssignment ==
    \A e \in Live :
        /\ setTemplate(World, e, C(World, e)._template) = World
        /\ setStyles(World, e, C(World, e)._styles) = World

\* An initialized Controller with a rendered template and installed styles
\* is assigned its own template and styles.
C4_Witness ==
    \E e \in Live :
        /\ ~C(World, e).needsInitialization
        /\ C(World, e)._template # "null"
        /\ C(World, e).view # Null
        /\ C(World, e)._styles = "s1"
        /\ isAttachedTo(World, "s1", styleTarget(World, e))
        /\ setTemplate(World, e, C(World, e)._template).calls = <<>>
        /\ setStyles(World, e, C(World, e)._styles).calls = <<>>

\* The value of an event option: the caller's when given, else true.
Expected(options, key) ==
    IF options # Null /\ key \in DOMAIN Val(options)
    THEN Val(options)[key]
    ELSE TRUE

\* C5: emit on a Controller that is not connected returns false and
\* dispatches nothing, also while the observers are notified of the
\* disconnect; on a connected Controller it dispatches exactly one event,
\* whose bubbles, composed and cancelable options are true unless the
\* caller's options override them, and returns the dispatch result.
C5_Emit ==
    \A e \in Live :
        /\ \A options \in EventOptions : \A prevented \in BOOLEAN :
             LET w == emit(World, e, "d", options, prevented)
             IN IF C(World, e)._isConnected
                THEN /\ Len(w.calls) = 1
                     /\ w.calls[1].op = "dispatchEvent"
                     /\ w.calls[1].el = e
                     /\ \A key \in {"bubbles", "composed", "cancelable"} :
                          w.calls[1].init[key] = Expected(options, key)
                     /\ w.calls[1].init.detail = "d"
                     /\ w.ret = Some(~(Expected(options, "cancelable")
                                        /\ prevented))
                     /\ [w EXCEPT !.calls = <<>>, !.ret = Null] = World
                ELSE /\ w.ret = Some(FALSE)
                     /\ [w EXCEPT !.ret = Null] = World
        /\ C(World, e)._isConnected =>
             LET w == onDisconnectedCallback(World, e, "emit")
             IN /\ CallsOf(w.calls, "dispatchEvent") = {}
                /\ \E i \in CallsOf(w.calls, "notify") :
                     /\ w.calls[i].value = FALSE
                     /\ w.calls[i + 1].op = "emit.return"
                     /\ w.calls[i + 1].value = FALSE

\* A connected Controller emits an event that a listener cancels, and one
\* with cancelable overridden that the listener cannot cancel.
C5_Witness ==
    \E e \in Live :
        /\ C(World, e)._isConnected
        /\ emit(World, e, "d", Null, TRUE).ret = Some(FALSE)
        /\ emit(World, e, "d", Some([cancelable |-> FALSE]), TRUE).ret
               = Some(TRUE)
        /\ CallsOf(emit(World, e, "d", Null, TRUE).calls, "dispatchEvent")
               = {1}

\* n calls of forCustomElement(e) in a row; ret and threw are those of the
\* last call, calls those of all of them.
RECURSIVE lookupTimes(_, _, _)
lookupTimes(w, e, n) ==
    IF n = 0 THEN w ELSE lookupTimes(forCustomElement(w, e), e, n - 1)

\* C6: for an element with a registered definition every forCustomElement
\* call returns the same Controller, the one cached on the element; at
\* most one Controller is constructed for the element and a shadow root is
\* attached to it at most once.
C6_LookupIdempotent ==
    \A e \in Elements :
        kind[e].registered =>
            /\ constructed[e] <= 1
            /\ pppController[e] # Null => constructed[e] = 1
            /\ \A n \in 1..(MaxCount + 1) :
                 LET first == forCustomElement(World, e)
                     w == lookupTimes(World, e, n)
                 IN /\ ~w.threw
                    /\ w.ret = first.ret
                    /\ w.ret = w.pppController[e]
                    /\ w.ret = Some(C(w, e).id)
                    /\ w.constructed[e] = 1
                    /\ C(w, e) = C(first, e)
                    /\ Cardinality(CallsOf(w.calls, "attachShadow")) +
                           (IF shadow[e] # Null THEN 1 ELSE 0) <= 1
                    /\ pppController[e] # Null =>
                           [w EXCEPT !.ret = Null] = World

\* An element whose Controller has gone through its initialization is
\* looked up again.
C6_Witness ==
    \E e \in Live :
        /\ ~C(World, e).needsInitialization
        /\ shadow[e] # Null
        /\ lookupTimes(World, e, 2).ret = pppController[e]

\* C7: forCustomElement on an element whose type has no registered
\* definition throws and leaves the element as it was: no Controller is
\* constructed or cached on it, no shadow root attached or registered.
C7_MissingDefinition ==
    \A e \in Elements :
        ~kind[e].registered =>
            /\ pppController[e] = Null
            /\ constructed[e] = 0
            /\ ctl[e] = Null
            /\ shadow[e] = Null
            /\ shadowRoots[e] = Null
            /\ LET w == forCustomElement(World, e)
               IN /\ w.threw
                  /\ w.ret = Null
                  /\ w.calls = <<>>
                  /\ [w EXCEPT !.threw = FALSE] = World

\* The lookup fails for an unregistered element on a page where another
\* element has its Controller.
C7_Witness ==
    \E e \in Elements :
        /\ ~kind[e].registered
        /\ Live # {}
        /\ forCustomElement(World, e).threw

\* The calls that name the node they render or install styles into.
TargetedCalls ==
    {"render", "removeChildNodes", "addStylesTo", "removeStylesFrom",
     "append", "removeChild"}

\* What the methods that render or install styles return from the current
\* state, for each of their inputs.
Renderings(e) ==
    {onConnectedCallback(World, e, "none")} \cup
    {setTemplate(World, e, value) : value \in TemplateValues} \cup
    {setStyles(World, e, value) : value \in StylesValues} \cup
    {addStyles(World, e, styles) : styles \in Styles} \cup
    {removeStyles(World, e, styles) : styles \in Styles}

\* C8: for an element whose definition asks for a closed shadow root, once
\* its Controller is constructed the shadow root lookup returns the root
\* attached at construction, although the native accessor returns null;
\* the registry keeps the entry, and templates and styles are rendered
\* into that root.
C8_ClosedShadowRoot ==
    \A e \in Elements :
        (constructed[e] > 0 /\ kind[e].shadowOptions = "closed") =>
            /\ shadow[e] # Null
            /\ Val(shadow[e]).mode = "closed"
            /\ nativeShadowRoot(World, e) = Null
            /\ shadowRoots[e] = Some(Val(shadow[e]).root)
            /\ getShadowRoot(World, e) = Some(Val(shadow[e]).root)
            /\ C(World, e).view # Null =>
                   Val(C(World, e).view).host = Val(shadow[e]).root
            /\ children[<<"node", e>>] = <<>>
            /\ \A w \in Renderings(e) : \A i \in DOMAIN w.calls :
                 w.calls[i].op \in TargetedCalls =>
                     w.calls[i].arg = Val(shadow[e]).root

\* An element with a closed shadow root has its template rendered and its
\* styles installed in that root.
C8_Witness ==
    \E e \in Live :
        /\ kind[e].shadowOptions = "closed"
        /\ C(World, e).view # Null
        /\ children[<<"shadowRoot", e>>] # <<>>
        /\ isAttachedTo(World, "s1", <<"shadowRoot", e>>)

\* C9: every entry of a behaviors map has a count of at least 1.
C9_CountsPositive ==
    \A e \in Live : \A i \in DOMAIN MapOf(World, e) :
        MapOf(World, e)[i][2] >= 1

\* A map holds an entry that a removal has brought back to count 1 next to
\* an entry with a higher count.
C9_Witness ==
    \E e \in Live :
        /\ MapHas(MapOf(World, e), "b1")
        /\ MapHas(MapOf(World, e), "b2")
        /\ MapGet(MapOf(World, e), "b1") = 1
        /\ MapGet(MapOf(World, e), "b2") >= 2
        /\ ~MapHas(MapOf(removeBehaviors(World, e, <<"b1">>, FALSE), e), "b1")

\* C10: on a Controller that is not connected addBehaviors and
\* removeBehaviors change only the behaviors map and call no bind or
\* unbind; the next onConnectedCallback calls bind exactly once on each
\* behavior then in the map, whatever its count, and on no other behavior.
C10_DeferredBinding ==
    \A e \in Live :
        ~C(World, e)._isConnected =>
            /\ \A behaviors \in BehaviorArrays :
                 LET w == addBehaviors(World, e, behaviors)
                 IN /\ w.calls = <<>>
                    /\ w = [World EXCEPT !.ctl[e][1].behaviors =
                                             C(w, e).behaviors]
                    /\ \A b \in Members(behaviors) :
                         MapHas(MapOf(w, e), b)
            /\ \A behaviors \in BehaviorArrays : \A force \in BOOLEAN :
                 LET w == removeBehaviors(World, e, behaviors, force)
                 IN /\ w.calls = <<>>
                    /\ w = [World EXCEPT !.ctl[e][1].behaviors =
                                             C(w, e).behaviors]
            /\ \A observer \in Observers :
                 LET w == onConnectedCallback(World, e, observer)
                 IN /\ \A b \in Behaviors :
                         /\ CallCount(w.calls, "bind", e, b) =
                                IF MapHas(MapOf(w, e), b) THEN 1 ELSE 0
                         /\ CallCount(w.calls, "unbind", e, b) = 0
                    /\ ~C(World, e).needsInitialization =>
                           MapOf(w, e) = MapOf(World, e)

\* A Controller that is not connected holds an unbound behavior with a
\* count above one and lacks another one, and connecting it binds the
\* first once.
C10_Witness ==
    \E e \in Live :
        /\ ~C(World, e)._isConnected
        /\ ~C(World, e).needsInitialization
        /\ MapHas(MapOf(World, e), "b1")
        /\ MapGet(MapOf(World, e), "b1") >= 2
        /\ ~MapHas(MapOf(World, e), "b2")
        /\ bound[e]["b1"] = 0
        /\ CallCount(onConnectedCallback(World, e, "none").calls,
                     "bind", e, "b1") = 1

(***************************************************************************)
(* A page of two light-DOM elements of one type.  In the document they     *)
(* have the same root node, so the styles of the type are installed in a   *)
(* target they share.                                                      *)
(***************************************************************************)
SharedInit ==
    /\ kind = [e \in Elements |-> LightKind]
    /\ props = [e \in Elements |-> [own |-> Null, accessor |-> Null]]
    /\ inDocument = [e \in Elements |-> FALSE]
    /\ pppController = [e \in Elements |-> Null]
    /\ constructed = [e \in Elements |-> 0]
    /\ ctl = [e \in Elements |-> Null]
    /\ shadow = [e \in Elements |-> Null]
    /\ shadowRoots = [e \in Elements |-> Null]
    /\ children = [h \in Hosts |-> <<>>]
    /\ attachedTargets = [s \in ManagedStyles |-> {}]
    /\ hsParent = [s \in HTMLStyleElements |-> Null]
    /\ bound = [e \in Elements |-> [b \in Behaviors |-> 0]]

\* The count of behavior b in the map of the Controller of e, 0 without
\* an entry.
Count(w, e, b) ==
    IF MapHas(MapOf(w, e), b) THEN MapGet(MapOf(w, e), b) ELSE 0

\* The counts of the Controller of e stay within the bound.
CountsWithinBound(w, e) == \A b \in Behaviors : Count(w, e, b) <= MaxCount

\* The platform moves the node into the document and runs the callback.
SharedConnect(e) ==
    /\ pppController[e] # Null
    /\ LET w == onConnectedCallback(Moved(World, e, TRUE, TRUE), e, "none")
       IN CountsWithinBound(w, e) /\ Commit(w)

\* The platform moves the node out of the document and runs the callback.
SharedDisconnect(e) ==
    /\ pppController[e] # Null
    /\ Commit(onDisconnectedCallback(Moved(World, e, TRUE, FALSE), e, "none"))

SharedAddStyles(e) ==
    /\ pppController[e] # Null
    /\ \E styles \in ManagedStyles :
         LET w == addStyles(World, e, styles)
         IN CountsWithinBound(w, e) /\ Commit(w)

SharedRemoveStyles(e) ==
    /\ pppController[e] # Null
    /\ \E styles \in ManagedStyles : Commit(removeStyles(World, e, styles))

SharedNext ==
    \E e \in Elements :
        \/ ForCustomElement(e)
        \/ SharedConnect(e)
        \/ SharedDisconnect(e)
        \/ SharedAddStyles(e)
        \/ SharedRemoveStyles(e)

SharedSpec == SharedInit /\ [][SharedNext]_vars

\* What may happen to an initialized Controller between two calls: nothing,
\* or the platform connects or disconnects its element.
Betweens == {"nothing", "connect", "disconnect"}

Between(w, e, what) ==
    IF what = "connect"
    THEN onConnectedCallback(Moved(w, e, TRUE, TRUE), e, "none")
    ELSE IF what = "disconnect"
         THEN onDisconnectedCallback(Moved(w, e, TRUE, FALSE), e, "none")
         ELSE w

\* C11: for a managed style s that carries behaviors, addStyles(s) adds
\* each of them to the Controller's map and a later removeStyles(s) on the
\* same Controller removes those additions, the counts of the map being
\* afterwards what they were before, whatever the render target (also a
\* light-DOM root shared with other Controllers that use s) and with a
\* connect or disconnect between the two calls.
C11_StylesSymmetric ==
    \A e \in Live : \A s \in ManagedStyles : \A what \in Betweens :
        (styleBehaviors(s) # Null /\ ~C(World, e).needsInitialization) =>
            LET added == addStyles(World, e, s)
                removed == removeStyles(Between(added, e, what), e, s)
            IN /\ \A b \in Members(Val(styleBehaviors(s))) :
                    Count(added, e, b) = Count(World, e, b) + 1
               /\ \A b \in Behaviors :
                    Count(removed, e, b) = Count(World, e, b)

\* Two connected Controllers share the document as their styles target,
\* and the styles are attached to it.
C11_Witness ==
    /\ \A e \in Elements :
          /\ e \in Live
          /\ C(World, e)._isConnected
          /\ styleTarget(World, e) = <<"document", "">>
    /\ isAttachedTo(World, "s1", <<"document", "">>)
    /\ Count(World, "e1", "b1") = 1
    /\ Count(World, "e2", "b1") = 0
    /\ Count(addStyles(World, "e2", "s1"), "e2", "b1") = 0
    /\ ~isAttachedTo(removeStyles(addStyles(World, "e2", "s1"), "e2", "s1"),
                     "s1", <<"document", "">>)

\* C12: the template of the first connect is the one assigned before it,
\* else what the element's resolveTemplate returns when the element has
\* the method, else the definition's template; it is rendered once, and
\* without a template no view is rendered.  The styles are settled in the
\* same order and added to the styles target.
C12_Precedence ==
    \A e \in Live : \A observer \in Observers : \A platform \in BOOLEAN :
        C(World, e).needsInitialization =>
            LET before == Moved(World, e, platform, TRUE)
                w == onConnectedCallback(before, e, observer)
                c == C(World, e)
                k == kind[e]
                template ==
                    IF c._template # "null" THEN c._template
                    ELSE IF k.resolveTemplate # Null
                         THEN Val(k.resolveTemplate)
                         ELSE IF k.template # "undefined"
                              THEN k.template
                              ELSE "null"
                styles ==
                    IF c._styles # "null" THEN c._styles
                    ELSE IF k.resolveStyles # Null
                         THEN Val(k.resolveStyles)
                         ELSE IF k.styles # "undefined"
                              THEN k.styles
                              ELSE "null"
                renders == CallsOf(w.calls, "render")
                installs == CallsOf(w.calls, "append") \cup
                            CallsOf(w.calls, "addStylesTo")
                target == styleTarget(before, e)
            IN /\ C(w, e)._template = template
               /\ IF template # "null"
                  THEN /\ Cardinality(renders) = 1
                       /\ \A i \in renders :
                            /\ w.calls[i].el = e
                            /\ w.calls[i].template = template
                       /\ C(w, e).view # Null
                       /\ Val(C(w, e).view).template = template
                  ELSE /\ renders = {}
                       /\ C(w, e).view = Null
               /\ C(w, e)._styles = styles
               /\ \A i \in installs :
                    w.calls[i].el = styles /\ w.calls[i].arg = target
               /\ IF styles = "null"
                  THEN installs = {}
                  ELSE IF styles \in HTMLStyleElements
                       THEN /\ Cardinality(installs) = 1
                            /\ w.hsParent[styles] = Some(target)
                       ELSE /\ isAttachedTo(w, styles, target)
                            /\ Cardinality(installs) =
                                   IF isAttachedTo(before, styles, target)
                                   THEN 0 ELSE 1
               /\ ~C(w, e).needsInitialization

\* An element whose instance methods and definition both give a template
\* and styles is connected for the first time with nothing assigned: the
\* instance methods' template and styles are used.
C12_Witness ==
    \E e \in Live :
        /\ C(World, e).needsInitialization
        /\ kind[e] = BothKind
        /\ C(World, e)._template = "null"
        /\ C(World, e)._styles = "null"
        /\ LET w == onConnectedCallback(World, e, "none")
           IN /\ Val(C(w, e).view).template = "t2"
              /\ C(w, e)._styles = "s1"
              /\ isAttachedTo(w, "s1", styleTarget(World, e))

\* The replacement of a view: on an initialized Controller that has a
\* view, the assignment of another template disposes that view, once and
\* before anything is rendered, and its nodes leave the host.
DisposedOnReplacement(e) ==
    (~C(World, e).needsInitialization /\ C(World, e).view # Null) =>
        \A value \in TemplateValues \ {C(World, e)._template} :
            LET w == setTemplate(World, e, value)
                old == Val(C(World, e).view)
                disposals == CallsOf(w.calls, "dispose")
            IN /\ Cardinality(disposals) = 1
               /\ \A i \in disposals :
                    /\ w.calls[i].el = e
                    /\ w.calls[i].arg = old.template
                    /\ \A j \in CallsOf(w.calls, "render") : i < j
               /\ CallsOf(w.calls, "view.unbind") = {}
               /\ C(w, e).view =
                      IF value = "null" THEN Null
                      ELSE Some([template |-> value, host |-> old.host,
                                 bound |-> TRUE])
               /\ w.children[old.host] =
                      LET rest == RemoveLast(children[old.host], old.template)
                      IN IF value = "null" THEN rest ELSE Append(rest, value)

\* C13 as stated: the view is disposed on replacement and on disconnect;
\* onDisconnectedCallback of a connected Controller that has a view
\* disposes that view.
C13_DisposedOnDisconnect ==
    \A e \in Live : \A observer \in Observers :
        /\ DisposedOnReplacement(e)
        /\ (C(World, e)._isConnected /\ C(World, e).view # Null) =>
               LET w == onDisconnectedCallback(World, e, observer)
               IN \E i \in CallsOf(w.calls, "dispose") :
                    /\ w.calls[i].el = e
                    /\ w.calls[i].arg = Val(C(World, e).view).template

\* C13, amended: the view is disposed on replacement and unbound on
\* disconnect; onDisconnectedCallback of a connected Controller that has a
\* view unbinds that view once, does not dispose it and keeps it, its
\* nodes staying in the host.
C13_UnboundOnDisconnect ==
    \A e \in Live : \A observer \in Observers :
        /\ DisposedOnReplacement(e)
        /\ (C(World, e)._isConnected /\ C(World, e).view # Null) =>
               LET w == onDisconnectedCallback(World, e, observer)
                   old == Val(C(World, e).view)
               IN /\ CallsOf(w.calls, "dispose") = {}
                  /\ Cardinality(CallsOf(w.calls, "view.unbind")) = 1
                  /\ \A i \in CallsOf(w.calls, "view.unbind") :
                       w.calls[i].el = e /\ w.calls[i].arg = old.template
                  /\ C(w, e).view = Some([old EXCEPT !.bound = FALSE])
                  /\ w.children = children

\* A connected Controller has a view with its nodes in the host; the
\* disconnect leaves it the view, unbound.
C13_Witness ==
    \E e \in Live :
        /\ C(World, e)._isConnected
        /\ C(World, e).view # Null
        /\ Val(C(World, e).view).bound
        /\ children[renderHost(World, e)] # <<>>
        /\ LET w == onDisconnectedCallback(World, e, "none")
           IN /\ C(w, e).view # Null
              /\ ~Val(C(w, e).view).bound
              /\ w.children = children

\* The methods other than onConnectedCallback leave needsInitialization
\* of the Controller of e as it is, for each of their inputs.
OthersKeepTheNeed(e) ==
    LET Kept(w) ==
            C(w, e).needsInitialization = C(World, e).needsInitialization
    IN /\ \A observer \in Observers :
            Kept(onDisconnectedCallback(World, e, observer))
       /\ \A value \in TemplateValues : Kept(setTemplate(World, e, value))
       /\ \A value \in StylesValues : Kept(setStyles(World, e, value))
       /\ \A styles \in Styles :
            Kept(addStyles(World, e, styles)) /\
            Kept(removeStyles(World, e, styles))
       /\ \A behaviors \in BehaviorArrays :
            /\ Kept(addBehaviors(World, e, behaviors))
            /\ \A force \in BOOLEAN :
                 Kept(removeBehaviors(World, e, behaviors, force))
       /\ \A options \in EventOptions :
            Kept(emit(World, e, "d", options, FALSE))
       /\ Kept(forCustomElement(World, e))

\* The calls of the initialization: the captured values assigned back, the
\* template rendered, the styles installed.
InitializationCalls == {"setProperty", "render", "append", "addStylesTo"}

\* C14: the initialization runs once, in the first onConnectedCallback: a
\* Controller that needs it has never been connected and has no view; that
\* onConnectedCallback assigns the captured values back and ends with the
\* Controller initialized; no other method starts or ends the need; an
\* initialized Controller is never initialized again, and its
\* onConnectedCallback only binds the view it has, rendering nothing,
\* installing no styles and assigning no property; a connected Controller
\* is initialized.
C14_InitializedOnce ==
    \A e \in Live :
        LET c == C(World, e)
        IN /\ c._isConnected => ~c.needsInitialization
           /\ c.needsInitialization =>
                  /\ c.view = Null
                  /\ \A b \in Behaviors : bound[e][b] = 0
           /\ ~c.needsInitialization => c.boundObservables = Null
           /\ OthersKeepTheNeed(e)
           /\ \A platform \in BOOLEAN : \A observer \in Observers :
                LET w == onConnectedCallback(Moved(World, e, platform, TRUE),
                                             e, observer)
                    captured == IF c.boundObservables = Null
                                THEN <<>> ELSE Val(c.boundObservables)
                IN /\ ~C(w, e).needsInitialization
                   /\ C(w, e).boundObservables = Null
                   /\ IF c.needsInitialization
                      THEN /\ Cardinality(CallsOf(w.calls, "setProperty")) =
                                  Len(captured)
                           /\ \A i \in DOMAIN captured :
                                w.props[e].accessor = Some(captured[i])
                           /\ CallsOf(w.calls, "view.bind") = {}
                      ELSE /\ \A i \in DOMAIN w.calls :
                                w.calls[i].op \notin InitializationCalls \cup
                                    {"dispose", "removeChildNodes"}
                           /\ Cardinality(CallsOf(w.calls, "view.bind")) =
                                  IF c.view # Null /\ ~c._isConnected
                                  THEN 1 ELSE 0
                           /\ C(w, e)._template = c._template
                           /\ C(w, e)._styles = c._styles
                           /\ c.view # Null =>
                                  C(w, e).view =
                                      Some([Val(c.view) EXCEPT !.bound =
                                               @ \/ ~c._isConnected])
                           /\ c.view = Null => C(w, e).view = Null
                           /\ w.children = children
                           /\ w.props = props

\* A Controller that was initialized with a captured property value, a
\* view and styles, and then disconnected, is connected again: the view is
\* bound and nothing of the initialization is repeated.
C14_Witness ==
    \E e \in Live :
        /\ ~C(World, e).needsInitialization
        /\ ~C(World, e)._isConnected
        /\ C(World, e).view # Null
        /\ ~Val(C(World, e).view).bound
        /\ props[e].accessor = Some("v")
        /\ C(World, e)._styles # "null"
        /\ LET w == onConnectedCallback(World, e, "none")
           IN /\ Cardinality(CallsOf(w.calls, "view.bind")) = 1
              /\ CallsOf(w.calls, "render") = {}
              /\ CallsOf(w.calls, "setProperty") = {}

\* Whether styles is installed in the target: a child of it, or attached
\* to it.
Installed(w, styles, target) ==
    IF styles \in HTMLStyleElements
    THEN w.hsParent[styles] = Some(target)
    ELSE isAttachedTo(w, styles, target)

\* The calls that remove styles from a target, and those that add them.
Removals(cs) == CallsOf(cs, "removeChild") \cup CallsOf(cs, "removeStylesFrom")
Additions(cs) == CallsOf(cs, "append") \cup CallsOf(cs, "addStylesTo")

\* Past the initialization the assignment of another template renders it
\* at once, and the assignment of other styles removes the installed old
\* ones and then adds the new ones.
SettersAfterInitialization(e) ==
    LET c == C(World, e)
        target == styleTarget(World, e)
    IN ~c.needsInitialization =>
         /\ \A value \in Templates \ {c._template} :
              LET w == setTemplate(World, e, value)
              IN /\ C(w, e)._template = value
                 /\ Cardinality(CallsOf(w.calls, "render")) = 1
                 /\ Val(C(w, e).view).template = value
         /\ \A value \in StylesValues \ {c._styles} :
              (c._styles = "null" \/ Installed(World, c._styles, target)) =>
                 LET w == setStyles(World, e, value)
                 IN /\ ~w.threw
                    /\ C(w, e)._styles = value
                    /\ c._styles # "null" =>
                           /\ Cardinality(Removals(w.calls)) = 1
                           /\ \A i \in Removals(w.calls) :
                                /\ w.calls[i].el = c._styles
                                /\ w.calls[i].arg = target
                                /\ \A j \in Additions(w.calls) : i < j
                           /\ ~Installed(w, c._styles, target)
                    /\ value # "null" =>
                           /\ Installed(w, value, target)
                           /\ \A j \in Additions(w.calls) :
                                w.calls[j].el = value /\
                                w.calls[j].arg = target

\* C15: before the initialization the assignment of another template or
\* of other styles changes the stored value and nothing else: nothing is
\* rendered, no styles are removed from or added to the target, nothing
\* is thrown, also when the styles stored before are not null; past the
\* initialization a template change renders at once and a styles change
\* removes the old styles and then adds the new ones.
C15_SettersBeforeInitialization ==
    \A e \in Live :
        /\ SettersAfterInitialization(e)
        /\ C(World, e).needsInitialization =>
               /\ \A value \in TemplateValues \ {C(World, e)._template} :
                    setTemplate(World, e, value) =
                        [World EXCEPT !.ctl[e][1]._template = value]
               /\ \A value \in StylesValues \ {C(World, e)._styles} :
                    setStyles(World, e, value) =
                        [World EXCEPT !.ctl[e][1]._styles = value]

\* A Controller not yet initialized stores a style element that is in no
\* target; the assignment of other styles throws and the stored styles
\* stay.
C15_Witness ==
    \E e \in Live :
        /\ C(World, e).needsInitialization
        /\ C(World, e)._styles = "hs"
        /\ hsParent["hs"] = Null
        /\ setStyles(World, e, "s1").threw
        /\ C(setStyles(World, e, "s1"), e)._styles = "hs"

\* C16: onDisconnectedCallback of a connected Controller first sets
\* isConnected to false and notifies the observers, who see false, then
\* unbinds the view, then the behaviors; each behavior of the map is
\* unbound exactly once whatever its count, no other is, and the map and
\* its counts stay as they were.
C16_DisconnectOrder ==
    \A e \in Live : \A observer \in Observers :
        C(World, e)._isConnected =>
            LET w == onDisconnectedCallback(World, e, observer)
                notifications == CallsOf(w.calls, "notify")
                viewUnbinds == CallsOf(w.calls, "view.unbind")
                unbinds == CallsOf(w.calls, "unbind")
            IN /\ ~C(w, e)._isConnected
               /\ notifications = {1}
               /\ w.calls[1].el = e
               /\ w.calls[1].value = FALSE
               /\ Cardinality(viewUnbinds) =
                      IF C(World, e).view # Null THEN 1 ELSE 0
               /\ \A i \in viewUnbinds :
                    /\ w.calls[i].el = e
                    /\ \A n \in notifications : n < i
                    /\ \A j \in unbinds : i < j
               /\ \A j \in unbinds : \A n \in notifications : n < j
               /\ \A b \in Behaviors :
                    CallCount(w.calls, "unbind", e, b) =
                        IF MapHas(MapOf(World, e), b) THEN 1 ELSE 0
               /\ CallsOf(w.calls, "bind") = {}
               /\ C(w, e).behaviors = C(World, e).behaviors

\* A connected Controller with a view and two behaviors, one of them with
\* a count above one, is disconnected.
C16_Witness ==
    \E e \in Live :
        /\ C(World, e)._isConnected
        /\ C(World, e).view # Null
        /\ Count(World, e, "b1") >= 2
        /\ Count(World, e, "b2") = 1
        /\ LET w == onDisconnectedCallback(World, e, "emit")
           IN /\ CallCount(w.calls, "unbind", e, "b1") = 1
              /\ CallCount(w.calls, "unbind", e, "b2") = 1
              /\ Count(w, e, "b1") = Count(World, e, "b1")

\* The calls of onConnectedCallback that come before the notification.
SetupCalls ==
    InitializationCalls \cup {"view.bind", "bind", "dispose", "removeChildNodes"}

\* C17: onConnectedCallback of a Controller that is not connected notifies
\* the observers once, of isConnected = true, after the initialization or
\* the view's rebinding and after bind was called on every behavior of
\* the map, those the styles added during the initialization included;
\* when the observers are notified every behavior of the map is bound.
C17_ConnectOrder ==
    \A e \in Live : \A observer \in Observers : \A platform \in BOOLEAN :
        ~C(World, e)._isConnected =>
            LET w == onConnectedCallback(Moved(World, e, platform, TRUE),
                                         e, observer)
                notifications == CallsOf(w.calls, "notify")
            IN /\ C(w, e)._isConnected
               /\ Cardinality(notifications) = 1
               /\ \A n \in notifications :
                    /\ w.calls[n].el = e
                    /\ w.calls[n].value = TRUE
                    /\ \A i \in DOMAIN w.calls :
                         w.calls[i].op \in SetupCalls <=> i < n
               /\ \A b \in Behaviors :
                    /\ CallCount(w.calls, "bind", e, b) =
                           IF MapHas(MapOf(w, e), b) THEN 1 ELSE 0
                    /\ MapHas(MapOf(w, e), b) => w.bound[e][b] >= 1
               /\ CallsOf(w.calls, "unbind") = {}
               /\ CallsOf(w.calls, "view.unbind") = {}

\* A Controller that holds a behavior and whose definition's styles carry
\* another one is connected for the first time.
C17_Witness ==
    \E e \in Live :
        /\ C(World, e).needsInitialization
        /\ MapHas(MapOf(World, e), "b2")
        /\ ~MapHas(MapOf(World, e), "b1")
        /\ LET w == onConnectedCallback(World, e, "emit")
           IN /\ C(w, e)._styles = "s1"
              /\ MapHas(MapOf(w, e), "b1")
              /\ CallCount(w.calls, "bind", e, "b1") = 1
              /\ CallCount(w.calls, "bind", e, "b2") = 1
              /\ CallsOf(w.calls, "dispatchEvent") # {}

\* The views rendered into a host and not disposed: what the host holds
\* apart from the content its author put there.
UndisposedViews(w, host) ==
    SelectSeq(w.children[host], LAMBDA node : node # "content")

\* C18: a Controller has at most one view that is not disposed, the one
\* it holds.  Past the initialization the assignment of another template
\* disposes the view there is before it renders the new template, or,
\* without a view, clears the host before it renders; the assignment of a
\* null template leaves the Controller without a view.
C18_RenderSwap ==
    \A e \in Live :
        LET c == C(World, e)
            host == renderHost(World, e)
        IN /\ UndisposedViews(World, host) =
                  IF c.view # Null THEN <<Val(c.view).template>> ELSE <<>>
           /\ c.view # Null => Val(c.view).host = host
           /\ ~c.needsInitialization =>
                \A value \in TemplateValues \ {c._template} :
                    LET w == setTemplate(World, e, value)
                        disposals == CallsOf(w.calls, "dispose")
                        clearings == CallsOf(w.calls, "removeChildNodes")
                        renders == CallsOf(w.calls, "render")
                    IN /\ Cardinality(disposals) =
                              IF c.view # Null THEN 1 ELSE 0
                       /\ Cardinality(clearings) =
                              IF c.view # Null THEN 0 ELSE 1
                       /\ Cardinality(renders) =
                              IF value # "null" THEN 1 ELSE 0
                       /\ \A i \in disposals \cup clearings :
                            /\ w.calls[i].el = e
                            /\ \A j \in renders : i < j
                       /\ \A i \in clearings : w.calls[i].arg = host
                       /\ \A j \in renders :
                            w.calls[j].arg = host /\
                            w.calls[j].template = value
                       /\ UndisposedViews(w, host) =
                              IF value # "null" THEN <<value>> ELSE <<>>
                       /\ c.view = Null =>
                              w.children[host] = UndisposedViews(w, host)
                       /\ C(w, e).view =
                              IF value # "null"
                              THEN Some([template |-> value, host |-> host,
                                         bound |-> TRUE])
                              ELSE Null

\* An initialized Controller without a view, the host holding its
\* author's content, is assigned a template; and a Controller with a view
\* is assigned null.
C18_Witness ==
    \E e \in Live :
        /\ ~C(World, e).needsInitialization
        /\ C(World, e).view = Null
        /\ children[renderHost(World, e)] = <<"content">>
        /\ setTemplate(World, e, "t1").children[renderHost(World, e)]
               = <<"t1">>
        /\ LET w == setTemplate(setTemplate(World, e, "t1"), e, "null")
           IN C(w, e).view = Null /\ CallsOf(w.calls, "dispose") # {}

\* C19: between the operations, the bind calls minus the unbind calls a
\* Controller has made on a behavior are 1 when the Controller is connected
\* and the behavior is in its map, and 0 otherwise.
C19_BoundSet ==
    \A e \in Live : \A b \in Behaviors :
        bound[e][b] =
            IF C(World, e)._isConnected /\ MapHas(MapOf(World, e), b)
            THEN 1 ELSE 0

\* A connected Controller whose styles carry a behavior that was also
\* added on its own: the behavior is bound once, the other one, not in the
\* map, is not bound.
C19_Witness ==
    \E e \in Live :
        /\ C(World, e)._isConnected
        /\ C(World, e)._styles = "s1"
        /\ isAttachedTo(World, "s1", styleTarget(World, e))
        /\ Count(World, e, "b1") >= 2
        /\ bound[e]["b1"] = 1
        /\ Count(World, e, "b2") = 0
        /\ bound[e]["b2"] = 0

\* C20: template.render returning a bound view, between the operations
\* the view of a Controller, when it has one, is bound exactly when the
\* Controller is connected; a template assigned to an initialized
\* Controller that is not connected leaves no bound view, and the next
\* onConnectedCallback binds the view once.
C20_ViewBoundIffConnected ==
    \A e \in Live :
        LET c == C(World, e)
        IN /\ c.view # Null => (Val(c.view).bound <=> c._isConnected)
           /\ (~c.needsInitialization /\ ~c._isConnected) =>
                \A value \in Templates \ {c._template} :
                    LET assigned == setTemplate(World, e, value)
                        w == onConnectedCallback(
                                 [assigned EXCEPT !.calls = <<>>], e, "none")
                    IN /\ ~Val(C(assigned, e).view).bound
                       /\ Cardinality(CallsOf(w.calls, "view.bind")) = 1
                       /\ Val(C(w, e).view).bound

\* An initialized Controller that is not connected has a bound view.
C20_Witness ==
    \E e \in Live :
        /\ ~C(World, e).needsInitialization
        /\ ~C(World, e)._isConnected
        /\ C(World, e).view # Null
        /\ Val(C(World, e).view).bound
        /\ CallsOf(onConnectedCallback(World, e, "none").calls, "view.bind")
               # {}

====
